---- MODULE Spec2Model ----
(***************************************************************************)
(* YARTAT: the ordered translation pipeline (src/src/message_handler.py,   *)
(* src/src/translator.py) and the reconnecting WebSocket client            *)
(* (src/src/websocket_client.py), as one state machine.                    *)
(*                                                                         *)
(* Python values are tagged records [t, v]: t is the type, v a sequence of *)
(* one-character strings (the text of a str, <<>> for None).               *)
(***************************************************************************)
EXTENDS Integers, Sequences, FiniteSets, TLC

\* ------------------------------------------------------------------ bounds
MaxMessages == 3
MaxSockets == 3
MaxEvents == 2

\* ------------------------------------------------------- program constants
max_reconnect_attempts == 5
reconnect_base_delay == 2
NormalClosure == 1000

\* ------------------------------------------------------------ Python values
PyNone == [t |-> "none", v |-> <<>>]
PyStr(s) == [t |-> "str", v |-> s]
PyNum(s) == [t |-> "num", v |-> s]
PyBool(b) == [t |-> "bool", v |-> IF b THEN <<"1">> ELSE <<"0">>]
PyList == [t |-> "list", v |-> <<>>]
JsonAbsent == [t |-> "absent", v |-> <<>>]

\* bool(x): None, "", 0, False and [] are falsy
Truthy(x) ==
    CASE x.t = "none" -> FALSE
      [] x.t = "absent" -> FALSE
      [] x.t = "str" -> x.v # <<>>
      [] x.t = "num" -> x.v # <<"0">>
      [] x.t = "bool" -> x.v = <<"1">>
      [] x.t = "list" -> x.v # <<>>

\* dict.get(key, default) on a decoded JSON object
DictGet(val, default) == IF val.t = "absent" THEN default ELSE val

\* ------------------------------------------------------------------- i18n
\* The language pack either loaded (labels as shipped) or did not load, in
\* which case i18n_string returns the key itself.
LanguagePacks == {"loaded", "missing"}

i18n_string(pack, key) ==
    IF pack = "missing" THEN key
    ELSE CASE key = "sender_types.system" -> "[ SYSTEM ]"
           [] key = "sender_types.self" -> "[  SELF  ]"
           [] key = "sender_types.others" -> "[ OTHERS ]"
           [] OTHER -> key

\* ----------------------------------------------------- language decision
TARGET_LANG == <<"en", "US">>

Digits == {"0", "1"}
Whitespace == {" "}
Emoji == {"E"}

RECURSIVE LStrip(_)
LStrip(s) == IF s # <<>> /\ Head(s) \in Whitespace THEN LStrip(Tail(s)) ELSE s

RECURSIVE RStrip(_)
RStrip(s) ==
    IF s # <<>> /\ s[Len(s)] \in Whitespace THEN RStrip(SubSeq(s, 1, Len(s) - 1)) ELSE s

\* str.strip()
Strip(s) == RStrip(LStrip(s))

Chars(s) == {s[i] : i \in 1..Len(s)}

\* pycld2 detection, as a table over the model's alphabet: "x" is a letter of
\* a Spanish text, "z" of a Chinese one, "y" of an English one, "q" of a
\* text detected with low confidence; pycld2.error gives ("un", 0).
\* Confidence is in percent.
detect_language(text) ==
    LET raw == IF "x" \in Chars(text) THEN <<<<"es">>, 90>>
               ELSE IF "z" \in Chars(text) THEN <<<<"zh", "Hant">>, 90>>
               ELSE IF "y" \in Chars(text) THEN <<<<"en">>, 95>>
               ELSE IF "q" \in Chars(text) THEN <<<<"fr">>, 30>>
               ELSE <<<<"un">>, 0>>
    IN  IF Head(raw[1]) = "zh" THEN <<<<"zh">>, raw[2]>> ELSE raw

_is_self_message(sender_type) == sender_type = "[  SELF  ]"

\* text.isdigit() or all(char in '0123456789' for char in text.strip())
_is_numeric_only(text) ==
    \/ (text # <<>> /\ Chars(text) \subseteq Digits)
    \/ Chars(Strip(text)) \subseteq Digits

_is_emoji_only(text) == Chars(text) \subseteq (Emoji \cup Whitespace)

_is_language_detection_reliable(source_lang, confidence) ==
    source_lang # <<"un">> /\ confidence >= 50

_is_same_base_language(source_lang, target_lang) == Head(source_lang) = Head(target_lang)

\* mutant of should_translate: the rule on the base language is missing
ShouldTranslateAnyLanguage(text0, sender_type) ==
    LET text == Strip(text0)
        det == detect_language(text)
    IN  IF _is_self_message(sender_type) THEN FALSE
        ELSE IF _is_numeric_only(text) THEN FALSE
        ELSE IF _is_emoji_only(text) THEN FALSE
        ELSE IF ~_is_language_detection_reliable(det[1], det[2]) THEN FALSE
        ELSE TRUE

\* the decision component of should_translate(text, sender_type)
should_translate(text0, sender_type) ==
    LET text == Strip(text0)
        det == detect_language(text)
    IN  IF _is_self_message(sender_type) THEN FALSE
        ELSE IF _is_numeric_only(text) THEN FALSE
        ELSE IF _is_emoji_only(text) THEN FALSE
        ELSE IF ~_is_language_detection_reliable(det[1], det[2]) THEN FALSE
        ELSE IF _is_same_base_language(det[1], TARGET_LANG) THEN FALSE
        ELSE TRUE

\* ------------------------------------------------------------- the frames
\* A text frame as json.loads sees it: not JSON at all, a JSON value that is
\* not an object, or an object with the four keys the handler reads.
Texts == {<<"x">>, <<"y">>}

ContentValues == {JsonAbsent, PyStr(<<>>), PyNum(<<"5">>)} \cup {PyStr(s) : s \in Texts}
IsSelfValues == {JsonAbsent, PyBool(TRUE), PyBool(FALSE), PyStr(<<>>), PyList}
VliveIdValues == {JsonAbsent, PyStr(<<>>), PyStr(<<"v">>)}
NicknameValues == {PyStr(<<"n">>)}

ObjectFrames ==
    [kind : {"object"}, content : ContentValues, is_self : IsSelfValues,
     vlive_id : VliveIdValues, nickname : NicknameValues]

MalformedFrames ==
    [kind : {"badjson", "nonobject"}, content : {JsonAbsent}, is_self : {JsonAbsent},
     vlive_id : {JsonAbsent}, nickname : {JsonAbsent}]

Frames == ObjectFrames \cup MalformedFrames

\* The frames of a run of the whole pipeline: one frame of every kind the
\* sequencer can tell apart (discarded before sequencing, failing after it,
\* enqueued for Self or Other with a text that is or is not translated).
PipelineFrames ==
    {f \in Frames : \/ f.kind = "badjson"
                    \/ /\ f.kind = "object"
                       /\ f.content # JsonAbsent
                       /\ f.is_self \in {PyBool(TRUE), PyBool(FALSE), PyList}
                       /\ f.vlive_id = PyStr(<<"v">>)}

\* ------------------------------------------------------------------- state
VARIABLES
    feed,               \* the frames the comment feed may send in this run
    language,           \* i18n: which language pack i18n_string reads
    frames_received,    \* history: how many frames on_message handed to handle_message
    message_count,      \* message_handler.message_count
    message_queue,      \* message_handler.message_queue
    output_queue,       \* message_handler.output_queue
    translation_cache,  \* message_handler.translation_cache (PyNone: no entry)
    pending_messages,   \* process_translation_queue: pending_messages
    next_sequence_id,   \* process_translation_queue: next_sequence_id
    seq_pc,             \* sequencer thread: "get" or "waiting" in .result(timeout)
    msg_item,           \* process_translation_queue: msg_item while waiting
    emitted,            \* history: sequence ids in the order their lines were put
    items,              \* history: sequence id -> the MessageItem enqueued with it
    fate,               \* history: sequence id -> what became of it
    pool,               \* executor: sequence id -> state of the call submitted for it
    calls,              \* history: text -> number of translate_message submissions
    translated_ok       \* history: texts whose translation call has returned

pipeVars ==
    <<feed, language, frames_received, message_count, message_queue, output_queue, translation_cache,
      pending_messages, next_sequence_id, seq_pc, msg_item, emitted, items, fate,
      pool, calls, translated_ok>>

SequenceIds == 0..(MaxMessages - 1)

MessageItem(msg, sender_type, name, sequence_id, needs_translation) ==
    [msg |-> msg, sender_type |-> sender_type, name |-> name,
     sequence_id |-> sequence_id, needs_translation |-> needs_translation]

NoItem == MessageItem(<<>>, "", <<>>, -1, FALSE)

\* format_message: the line is the base (sender label, name, text) and, when
\* `translated` is truthy, the translation segment.
format_message(item, translated) ==
    [sender_type |-> item.sender_type, name |-> item.name, msg |-> item.msg,
     translation |-> IF Truthy(translated) THEN translated ELSE PyNone]

\* t("errors.translation_failed").format(msg_item.msg)
FailurePlaceholder(msg) == PyStr(<<"F">> \o msg)

\* f"[{self.current_engine} Translation Error]{text}", and the like strings of
\* the two engines: what translate returns in place of raising
TranslationErrorString(text) == PyStr(<<"!">> \o text)

\* what translate_message may return for a text: a translation, the empty
\* string, or the error string of a failed translation
TranslatorReturns(text) ==
    {PyStr(<<"T">> \o text), PyStr(<<>>), TranslationErrorString(text)}

\* config.MAX_WORKERS: max_workers of the ThreadPoolExecutor
MAX_WORKERS == 1

\* the format_message call sites of process_translation_queue that may raise
FormatLines == {57, 61, 64}

\* the module globals and the locals of process_translation_queue at start
InitQueues ==
    /\ frames_received = 0
    /\ message_count = 0
    /\ message_queue = <<>>
    /\ output_queue = <<>>
    /\ translation_cache = [x \in Texts |-> PyNone]
    /\ pending_messages = <<>>
    /\ next_sequence_id = 0
    /\ seq_pc = "get"
    /\ msg_item = NoItem
    /\ emitted = <<>>
    /\ items = [i \in SequenceIds |-> NoItem]
    /\ fate = [i \in SequenceIds |-> "none"]
    /\ pool = [i \in SequenceIds |-> "none"]
    /\ calls = [x \in Texts |-> 0]
    /\ translated_ok = {}

InitPipeline == feed = PipelineFrames /\ language \in LanguagePacks /\ InitQueues

\* ---------------------------------------------------------- handle_message
\* the key looked up in sender_types (message_handler.py:109)
SenderKey(f) ==
    IF DictGet(f.vlive_id, PyNone) = PyStr(<<>>) THEN PyStr(<<>>)
    ELSE DictGet(f.is_self, PyBool(FALSE))

\* a list is unhashable: sender_types.get raises TypeError
Hashable(key) == key.t # "list"

\* sender_types.get(key) or t("sender_types.others")
SenderType(pack, key) ==
    IF key = PyStr(<<>>) THEN i18n_string(pack, "sender_types.system")
    ELSE IF key = PyBool(TRUE) THEN i18n_string(pack, "sender_types.self")
    ELSE i18n_string(pack, "sender_types.others")

\* does handle_message raise after it has taken a sequence id?
RaisesAfterSequencing(f) ==
    \/ ~Hashable(SenderKey(f))
    \/ DictGet(f.content, PyStr(<<>>)).t # "str"    \* text.strip() on a non-str

\* mutant of Discarded: only a missing content returns early, an empty one goes on
DiscardedIfAbsent(f) ==
    \/ f.kind # "object"
    \/ f.content = JsonAbsent

\* does handle_message return before it takes a sequence id?
Discarded(f) ==
    \/ f.kind # "object"                            \* JSONDecodeError, AttributeError
    \/ ~Truthy(DictGet(f.content, PyStr(<<>>)))     \* if not msg: return

\* mutant of NewItem: the sequence id is read after message_count was incremented
NewItemAfterIncrement(f, pack, sequence_id) ==
    LET msg == DictGet(f.content, PyStr(<<>>)).v
        sender_type == SenderType(pack, SenderKey(f))
    IN  MessageItem(msg, sender_type, DictGet(f.nickname, PyStr(<<"U">>)).v,
                    sequence_id + 1, should_translate(msg, sender_type))

NewItem(f, pack, sequence_id) ==
    LET msg == DictGet(f.content, PyStr(<<>>)).v
        sender_type == SenderType(pack, SenderKey(f))
    IN  MessageItem(msg, sender_type, DictGet(f.nickname, PyStr(<<"U">>)).v,
                    sequence_id, should_translate(msg, sender_type))

handle_message(f) ==
    /\ frames_received < MaxMessages
    /\ frames_received' = frames_received + 1
    /\ IF Discarded(f)
       THEN UNCHANGED <<message_count, message_queue, items, fate>>
       ELSE /\ message_count' = message_count + 1
            /\ IF RaisesAfterSequencing(f)
               THEN /\ fate' = [fate EXCEPT ![message_count] = "lost"]
                    /\ UNCHANGED <<message_queue, items>>
               ELSE LET item == NewItem(f, language, message_count)
                    IN  /\ message_queue' = Append(message_queue, item)
                        /\ items' = [items EXCEPT ![message_count] = item]
                        /\ fate' = [fate EXCEPT ![message_count] = "queued"]
    /\ UNCHANGED <<feed, language, output_queue, translation_cache, pending_messages,
                   next_sequence_id, seq_pc, msg_item, emitted, pool, calls, translated_ok>>

\* ------------------------------------------------ process_translation_queue
\* while next_sequence_id in pending_messages: put, pop, advance
\* mutant of EmitInSequence: the loop emits the lowest pending id, gap or not
RECURSIVE EmitLowestPending(_, _, _, _)
EmitLowestPending(pending, next, out, ids) ==
    IF DOMAIN pending # {}
    THEN LET low == CHOOSE k \in DOMAIN pending : \A j \in DOMAIN pending : k <= j
         IN  EmitLowestPending([k \in (DOMAIN pending) \ {low} |-> pending[k]], low + 1,
                               Append(out, pending[low]), Append(ids, low))
    ELSE <<pending, next, out, ids>>

RECURSIVE EmitInSequence(_, _, _, _)
EmitInSequence(pending, next, out, ids) ==
    IF next \in DOMAIN pending
    THEN EmitInSequence([k \in (DOMAIN pending) \ {next} |-> pending[k]], next + 1,
                        Append(out, pending[next]), Append(ids, next))
    ELSE <<pending, next, out, ids>>

\* mutant of StoreAndEmit: the loop starts only once the id after the next is pending
StoreAndEmitLagging(item, line) ==
    LET stored == (item.sequence_id :> line) @@ pending_messages
        r == IF next_sequence_id + 1 \in DOMAIN stored
             THEN EmitInSequence(stored, next_sequence_id, output_queue, emitted)
             ELSE <<stored, next_sequence_id, output_queue, emitted>>
    IN  /\ pending_messages' = r[1]
        /\ next_sequence_id' = r[2]
        /\ output_queue' = r[3]
        /\ emitted' = r[4]

\* lines 63-69: store the formatted line, then output messages in sequence
StoreAndEmit(item, line) ==
    LET r == EmitInSequence((item.sequence_id :> line) @@ pending_messages,
                            next_sequence_id, output_queue, emitted)
    IN  /\ pending_messages' = r[1]
        /\ next_sequence_id' = r[2]
        /\ output_queue' = r[3]
        /\ emitted' = r[4]

\* the outer `except Exception`: the iteration ends, nothing is stored
DropItem(item) ==
    /\ fate' = [fate EXCEPT ![item.sequence_id] = "dropped"]
    /\ UNCHANGED <<pending_messages, next_sequence_id, output_queue, emitted>>

\* mutant of TranslationFailed: the failed message is stored without placeholder
TranslationFailedBare(item, how, raising) ==
    IF 61 \in raising
    THEN DropItem(item)
    ELSE /\ StoreAndEmit(item, format_message(item, PyNone))
         /\ fate' = [fate EXCEPT ![item.sequence_id] = how]

\* lines 58-61, then 63-69: the inner `except Exception` builds the placeholder line
TranslationFailed(item, how, raising) ==
    IF 61 \in raising
    THEN DropItem(item)
    ELSE /\ StoreAndEmit(item, format_message(item, FailurePlaceholder(item.msg)))
         /\ fate' = [fate EXCEPT ![item.sequence_id] = how]

\* lines 56-57, then 63-69: cache the value, format the line with it
TranslationObtained(item, how, translated, raising) ==
    /\ translation_cache' = [translation_cache EXCEPT ![item.msg] = translated]
    /\ IF 57 \in raising
       THEN TranslationFailed(item, "raised", raising)
       ELSE /\ StoreAndEmit(item, format_message(item, translated))
            /\ fate' = [fate EXCEPT ![item.sequence_id] = how]

\* mutant of ProcessPlain: the line is stored, the output loop is not run
ProcessPlainStoreOnly(raising) ==
    /\ seq_pc = "get" /\ message_queue # <<>>
    /\ LET item == Head(message_queue)
       IN  /\ ~item.needs_translation
           /\ IF 64 \in raising
              THEN DropItem(item)
              ELSE /\ pending_messages' =
                        (item.sequence_id :> format_message(item, PyNone)) @@ pending_messages
                   /\ UNCHANGED <<next_sequence_id, output_queue, emitted>>
                   /\ fate' = [fate EXCEPT ![item.sequence_id] = "plain"]
    /\ message_queue' = Tail(message_queue)
    /\ UNCHANGED <<feed, language, frames_received, message_count, translation_cache, seq_pc,
                   msg_item, items, pool, calls, translated_ok>>

\* an item that needs no translation: line 64 formats it without one
ProcessPlain(raising) ==
    /\ seq_pc = "get" /\ message_queue # <<>>
    /\ LET item == Head(message_queue)
       IN  /\ ~item.needs_translation
           /\ IF 64 \in raising
              THEN DropItem(item)
              ELSE /\ StoreAndEmit(item, format_message(item, PyNone))
                   /\ fate' = [fate EXCEPT ![item.sequence_id] = "plain"]
    /\ message_queue' = Tail(message_queue)
    /\ UNCHANGED <<feed, language, frames_received, message_count, translation_cache, seq_pc,
                   msg_item, items, pool, calls, translated_ok>>

\* translation_cache.get(cache_key) is truthy: `or` does not evaluate the submit
ProcessCached(raising) ==
    /\ seq_pc = "get" /\ message_queue # <<>>
    /\ LET item == Head(message_queue)
       IN  /\ item.needs_translation
           /\ Truthy(translation_cache[item.msg])
           /\ TranslationObtained(item, "cached", translation_cache[item.msg], raising)
    /\ message_queue' = Tail(message_queue)
    /\ UNCHANGED <<feed, language, frames_received, message_count, seq_pc, msg_item, items,
                   pool, calls, translated_ok>>

\* the cached value is None or falsy: executor.submit(translate_message, msg)
SubmitTranslation ==
    /\ seq_pc = "get" /\ message_queue # <<>>
    /\ LET item == Head(message_queue)
       IN  /\ item.needs_translation
           /\ ~Truthy(translation_cache[item.msg])
           /\ msg_item' = item
           /\ calls' = [calls EXCEPT ![item.msg] = @ + 1]
           /\ fate' = [fate EXCEPT ![item.sequence_id] = "waiting"]
           /\ pool' = [pool EXCEPT ![item.sequence_id] = "queued"]
    /\ message_queue' = Tail(message_queue)
    /\ seq_pc' = "waiting"
    /\ UNCHANGED <<feed, language, frames_received, message_count, output_queue, translation_cache,
                   pending_messages, next_sequence_id, emitted, items, translated_ok>>

\* the calls a pool worker is executing
Running == {i \in SequenceIds : pool[i] = "running"}

\* is the sequencer blocked in .result(timeout) on the call of sequence id i?
Awaited(i) == seq_pc = "waiting" /\ msg_item.sequence_id = i

\* mutant of WorkerStarts: a thread is started for every work item
WorkerStartsUnbounded ==
    /\ \E i \in SequenceIds :
          /\ pool[i] = "queued"
          /\ \A j \in SequenceIds : pool[j] = "queued" => i <= j
          /\ pool' = [pool EXCEPT ![i] = "running"]
    /\ UNCHANGED <<feed, language, frames_received, message_count, message_queue, output_queue,
                   translation_cache, pending_messages, next_sequence_id, seq_pc, msg_item,
                   emitted, items, fate, calls, translated_ok>>

\* a pool worker takes the oldest work item off the executor's queue
WorkerStarts ==
    /\ Cardinality(Running) < MAX_WORKERS
    /\ \E i \in SequenceIds :
          /\ pool[i] = "queued"
          /\ \A j \in SequenceIds : pool[j] = "queued" => i <= j
          /\ pool' = [pool EXCEPT ![i] = "running"]
    /\ UNCHANGED <<feed, language, frames_received, message_count, message_queue, output_queue,
                   translation_cache, pending_messages, next_sequence_id, seq_pc, msg_item,
                   emitted, items, fate, calls, translated_ok>>

\* mutant of AbandonedCallEnds: the worker stores what the late call returned
AbandonedCallCaches(i, translated) ==
    /\ pool[i] = "running" /\ ~Awaited(i)
    /\ pool' = [pool EXCEPT ![i] = "done"]
    /\ translation_cache' = [translation_cache EXCEPT ![items[i].msg] = translated]
    /\ UNCHANGED <<feed, language, frames_received, message_count, message_queue, output_queue,
                   pending_messages, next_sequence_id, seq_pc, msg_item,
                   emitted, items, fate, calls, translated_ok>>

\* translate_message ends in a worker after the sequencer stopped waiting for
\* it: the future is referenced by nobody, what it holds is dropped
AbandonedCallEnds(i, translated) ==
    /\ pool[i] = "running" /\ ~Awaited(i)
    /\ pool' = [pool EXCEPT ![i] = "done"]
    /\ UNCHANGED <<feed, language, frames_received, message_count, message_queue, output_queue,
                   translation_cache, pending_messages, next_sequence_id, seq_pc, msg_item,
                   emitted, items, fate, calls, translated_ok>>

\* .result(timeout) returns the translator's string
TranslationReturns(translated, raising) ==
    /\ seq_pc = "waiting"
    /\ pool[msg_item.sequence_id] = "running"
    /\ translated \in TranslatorReturns(msg_item.msg)
    /\ TranslationObtained(msg_item, "ok", translated, raising)
    /\ translated_ok' = translated_ok \cup {msg_item.msg}
    /\ pool' = [pool EXCEPT ![msg_item.sequence_id] = "done"]
    /\ seq_pc' = "get" /\ msg_item' = NoItem
    /\ UNCHANGED <<feed, language, frames_received, message_count, message_queue, items, calls>>

\* .result(timeout) re-raises what translate_message raised
TranslationRaises(raising) ==
    /\ seq_pc = "waiting"
    /\ pool[msg_item.sequence_id] = "running"
    /\ TranslationFailed(msg_item, "raised", raising)
    /\ pool' = [pool EXCEPT ![msg_item.sequence_id] = "done"]
    /\ seq_pc' = "get" /\ msg_item' = NoItem
    /\ UNCHANGED <<feed, language, frames_received, message_count, message_queue,
                   translation_cache, items, calls, translated_ok>>

\* mutant of TranslationTimesOut: the value the late call returns is cached all the same
TranslationTimesOutKeepsResult(raising) ==
    /\ seq_pc = "waiting"
    /\ TranslationFailed(msg_item, "timeout", raising)
    /\ translation_cache' =
          [translation_cache EXCEPT ![msg_item.msg] = PyStr(<<"T">> \o msg_item.msg)]
    /\ seq_pc' = "get" /\ msg_item' = NoItem
    /\ UNCHANGED <<feed, language, frames_received, message_count, message_queue,
                   items, pool, calls, translated_ok>>

\* .result(timeout) raises TimeoutError after TRANSLATION_TIMEOUT: the call,
\* still queued or running, stays with the executor
TranslationTimesOut(raising) ==
    /\ seq_pc = "waiting"
    /\ TranslationFailed(msg_item, "timeout", raising)
    /\ seq_pc' = "get" /\ msg_item' = NoItem
    /\ UNCHANGED <<feed, language, frames_received, message_count, message_queue,
                   translation_cache, items, pool, calls, translated_ok>>

\* ------------------------------------------------------- WebSocketClient
VARIABLES
    socks,              \* every WebSocketApp created so far, in creation order
    ws,                 \* self.ws: index into socks, 0 for None
    reconnect_count,    \* self.reconnect_count
    is_reconnecting,    \* self.is_reconnecting
    connected,          \* self._connected
    normal_exit,        \* self._normal_exit
    timers,             \* every threading.Timer created so far, in creation order
    reconnect_timer,    \* self._reconnect_timer: index into timers, 0 for None
    tui_app,            \* tui.tui_app is not None
    tui_event_queue     \* tui.tui_event_queue

connVars ==
    <<socks, ws, reconnect_count, is_reconnecting, connected, normal_exit, timers,
      reconnect_timer, tui_app, tui_event_queue>>

\* one call of should_translate, for the decision taken on its own
VARIABLES
    arg_text,           \* the `text` argument
    arg_sender_type,    \* the `sender_type` argument
    ret_decision        \* the first component of the returned tuple, "pending" before

callVars == <<arg_text, arg_sender_type, ret_decision>>

\* ---------------------------------------------------- TranslationManager
VARIABLES
    config_json,        \* translation.engine in config.json ("" when it has none)
    config_data,        \* translation.engine in config.config_data
    TRANSLATOR_ENGINE,  \* the name translator.py and tui.py imported from config
    translators,        \* translation_manager.translators: engine -> instance
    current_engine,     \* translation_manager.current_engine
    engine_call         \* history: the last call made on the manager

engineVars ==
    <<config_json, config_data, TRANSLATOR_ENGINE, translators, current_engine, engine_call>>

\* how many times the translator instances are recreated in one run
MaxReloads == 2

\* the keys of self.translators
RegisteredEngines == {"openai", "google"}

\* what the engine field of the configuration screen, or config.json, may hold
EngineNames == RegisteredEngines \cup {"deepl"}

\* the instances created by the n-th construction of the table
Translators(n) == [e \in RegisteredEngines |-> n]

EngineCall(op, arg, raised, reloaded) ==
    [op |-> op, arg |-> arg, raised |-> raised, reloaded |-> reloaded]

\* config.py at import, then TranslationManager.__init__
InitEngine(file) ==
    /\ config_json = file
    /\ config_data = file
    /\ TRANSLATOR_ENGINE = IF file = "" THEN "google" ELSE file
    /\ translators = Translators(0)
    /\ current_engine = TRANSLATOR_ENGINE
    /\ engine_call = EngineCall("none", "", FALSE, FALSE)

\* a configuration that names no engine
InitEngineDefault == InitEngine("")

\* TranslationManager.reload
reload ==
    /\ translators' = Translators(translators["google"] + 1)
    /\ current_engine' = TRANSLATOR_ENGINE

\* reload() called on its own
ReloadCalled ==
    /\ translators["google"] < MaxReloads
    /\ reload
    /\ engine_call' = EngineCall("reload", "", FALSE, TRUE)
    /\ UNCHANGED <<config_json, config_data, TRANSLATOR_ENGINE>>

\* ConfigScreen.action_save_config with the engine field holding new_translator_engine
action_save_config(new_translator_engine) ==
    /\ translators["google"] < MaxReloads
    /\ config_json' = new_translator_engine
    /\ config_data' = new_translator_engine
    /\ IF new_translator_engine # TRANSLATOR_ENGINE
       THEN reload
       ELSE UNCHANGED <<translators, current_engine>>
    /\ engine_call' = EngineCall("save", new_translator_engine, FALSE,
                                 new_translator_engine # TRANSLATOR_ENGINE)
    /\ UNCHANGED TRANSLATOR_ENGINE

\* mutant of set_engine: the name is taken without looking it up
SetEngineUnchecked(engine) ==
    /\ current_engine' = engine
    /\ engine_call' = EngineCall("set_engine", engine, FALSE, FALSE)
    /\ UNCHANGED <<config_json, config_data, TRANSLATOR_ENGINE, translators>>

\* TranslationManager.set_engine
set_engine(engine) ==
    /\ IF engine \in DOMAIN translators
       THEN /\ current_engine' = engine
            /\ engine_call' = EngineCall("set_engine", engine, FALSE, FALSE)
       ELSE /\ engine_call' = EngineCall("set_engine", engine, TRUE, FALSE)
            /\ UNCHANGED current_engine
    /\ UNCHANGED <<config_json, config_data, TRANSLATOR_ENGINE, translators>>

\* translator.set_translator_engine
set_translator_engine(engine) == set_engine(engine)

vars == <<pipeVars, connVars, callVars, engineVars>>

\* A WebSocketApp: `wrapped_open` tells whether its on_open is the wrapper of
\* _on_open_wrapper; `code` is the close_status_code of its close event;
\* `was_open` and `close_req` record its open event and a ws.close() on it.
NewSocket(wrapped) ==
    [state |-> "connecting", wrapped_open |-> wrapped, code |-> 0, was_open |-> FALSE,
     close_req |-> FALSE]

\* close_status_code of a close event: normal closure or 1006 (abnormal)
CloseCodes == {NormalClosure, 1006}

RECURSIVE Pow2(_)
Pow2(n) == IF n = 0 THEN 1 ELSE 2 * Pow2(n - 1)

\* reconnect_base_delay * (2 ** (reconnect_count - 1))
Delay(count) == reconnect_base_delay * Pow2(count - 1)

\* threading.Timer.cancel(): only a timer still waiting is stopped
Cancel(tms, t) ==
    IF t # 0 /\ tms[t].state = "pending" THEN [tms EXCEPT ![t].state = "cancelled"] ELSE tms

\* tui.on_connection_status: the update is queued only once the TUI exists
on_connection_status(queue, status) ==
    IF tui_app THEN Append(queue, [type |-> "status_update", status |-> status]) ELSE queue

\* the status strings main.initialize_websocket builds
StatusEstablished == [text |-> "connection.established", code |-> 0]
StatusError == [text |-> "connection.error", code |-> 0]
StatusClosed(code) == [text |-> "connection.closed_abnormal", code |-> code]

InitConnection ==
    /\ socks = <<>>
    /\ ws = 0
    /\ reconnect_count = 0
    /\ is_reconnecting = FALSE
    /\ connected = FALSE
    /\ normal_exit = FALSE
    /\ timers = <<>>
    /\ reconnect_timer = 0
    /\ tui_app = FALSE
    /\ tui_event_queue = <<>>

\* WebSocketClient.is_connected
is_connected == ws # 0 /\ connected

\* connect(), and the socket thread main.initialize_websocket starts on it
connect ==
    /\ ws = 0 /\ ~normal_exit
    /\ socks' = Append(socks, NewSocket(TRUE))
    /\ ws' = Len(socks) + 1
    /\ UNCHANGED <<reconnect_count, is_reconnecting, connected, normal_exit, timers,
                   reconnect_timer, tui_app, tui_event_queue>>

\* tui.start_tui, called by main() after the socket thread was started
start_tui ==
    /\ ~tui_app /\ ~normal_exit
    /\ tui_app' = TRUE
    /\ UNCHANGED <<socks, ws, reconnect_count, is_reconnecting, connected, normal_exit,
                   timers, reconnect_timer, tui_event_queue>>

\* mutant of on_open: an open takes one attempt off the count instead of resetting it
OnOpenDecrements(s) ==
    /\ socks[s].state = "connecting"
    /\ socks' = [socks EXCEPT ![s].state = "open", ![s].was_open = TRUE]
    /\ IF socks[s].wrapped_open
       THEN /\ connected' = TRUE
            /\ reconnect_count' = reconnect_count - 1
            /\ is_reconnecting' = FALSE
       ELSE UNCHANGED <<connected, reconnect_count, is_reconnecting>>
    /\ tui_event_queue' = on_connection_status(tui_event_queue, StatusEstablished)
    /\ UNCHANGED <<ws, normal_exit, timers, reconnect_timer, tui_app>>

\* the open event of socket s: on_open is wrapped_on_open only for the socket
\* connect() built; _reconnect passes the saved, unwrapped 'on_open'
on_open(s) ==
    /\ socks[s].state = "connecting"
    /\ socks' = [socks EXCEPT ![s].state = "open", ![s].was_open = TRUE]
    /\ IF socks[s].wrapped_open
       THEN /\ connected' = TRUE
            /\ reconnect_count' = 0
            /\ is_reconnecting' = FALSE
       ELSE UNCHANGED <<connected, reconnect_count, is_reconnecting>>
    /\ tui_event_queue' = on_connection_status(tui_event_queue, StatusEstablished)
    /\ UNCHANGED <<ws, normal_exit, timers, reconnect_timer, tui_app>>

\* the error event of socket s: the on_error lambda of main.initialize_websocket
on_error(s) ==
    /\ socks[s].state \in {"connecting", "open"}
    /\ Len(tui_event_queue) < MaxEvents
    /\ tui_event_queue' = on_connection_status(tui_event_queue, StatusError)
    /\ UNCHANGED <<socks, ws, reconnect_count, is_reconnecting, connected, normal_exit,
                   timers, reconnect_timer, tui_app>>

\* mutant of _schedule_reconnect: the next two attempts are scheduled up front
ScheduleTwoAttempts ==
    IF reconnect_count >= max_reconnect_attempts
    THEN UNCHANGED <<is_reconnecting, reconnect_count, timers, reconnect_timer>>
    ELSE /\ is_reconnecting' = TRUE
         /\ reconnect_count' = reconnect_count + 1
         /\ timers' = timers \o <<[state |-> "pending", delay |-> Delay(reconnect_count + 1)],
                                  [state |-> "pending", delay |-> Delay(reconnect_count + 2)]>>
         /\ reconnect_timer' = Len(timers) + 2

\* _schedule_reconnect
_schedule_reconnect ==
    IF reconnect_count >= max_reconnect_attempts
    THEN UNCHANGED <<is_reconnecting, reconnect_count, timers, reconnect_timer>>
    ELSE /\ is_reconnecting' = TRUE
         /\ reconnect_count' = reconnect_count + 1
         /\ timers' = Append(Cancel(timers, reconnect_timer),
                             [state |-> "pending", delay |-> Delay(reconnect_count + 1)])
         /\ reconnect_timer' = Len(timers) + 1

\* mutant of wrapped_on_close: the normal-exit flag is not consulted
CloseEventIgnoringExit(s, close_status_code) ==
    /\ socks[s].state \in {"connecting", "open"}
    /\ socks' = [socks EXCEPT ![s].state = "closed", ![s].code = close_status_code]
    /\ connected' = FALSE
    /\ tui_event_queue' = on_connection_status(tui_event_queue, StatusClosed(close_status_code))
    /\ IF ~is_reconnecting /\ close_status_code # NormalClosure
       THEN _schedule_reconnect
       ELSE UNCHANGED <<is_reconnecting, reconnect_count, timers, reconnect_timer>>
    /\ UNCHANGED <<ws, normal_exit, tui_app>>

\* the close event of socket s: wrapped_on_close
wrapped_on_close(s, close_status_code) ==
    /\ socks[s].state \in {"connecting", "open"}
    /\ socks' = [socks EXCEPT ![s].state = "closed", ![s].code = close_status_code]
    /\ connected' = FALSE
    /\ tui_event_queue' = on_connection_status(tui_event_queue, StatusClosed(close_status_code))
    /\ IF ~is_reconnecting /\ ~normal_exit /\ close_status_code # NormalClosure
       THEN _schedule_reconnect
       ELSE UNCHANGED <<is_reconnecting, reconnect_count, timers, reconnect_timer>>
    /\ UNCHANGED <<ws, normal_exit, tui_app>>

\* threading.Timer.run: the delay has passed and the timer was not cancelled
TimerFires(t) ==
    /\ timers[t].state = "pending"
    /\ timers' = [timers EXCEPT ![t].state = "firing"]
    /\ UNCHANGED <<socks, ws, reconnect_count, is_reconnecting, connected, normal_exit,
                   reconnect_timer, tui_app, tui_event_queue>>

\* _reconnect, run by the timer thread: a new socket with the saved callbacks
_reconnect(t) ==
    /\ timers[t].state = "firing"
    /\ Len(socks) < MaxSockets
    /\ timers' = [timers EXCEPT ![t].state = "done"]
    /\ IF ws # 0
       THEN /\ socks' = Append(socks, NewSocket(FALSE))
            /\ ws' = Len(socks) + 1
       ELSE UNCHANGED <<socks, ws>>
    /\ UNCHANGED <<reconnect_count, is_reconnecting, connected, normal_exit,
                   reconnect_timer, tui_app, tui_event_queue>>

\* mutant of close: the flag is set and the socket closed, the timer is left alone
CloseKeepsTimer ==
    /\ ~normal_exit
    /\ normal_exit' = TRUE
    /\ socks' = IF ws # 0 /\ socks[ws].state # "closed"
                THEN [socks EXCEPT ![ws].close_req = TRUE] ELSE socks
    /\ UNCHANGED <<ws, reconnect_count, is_reconnecting, connected, reconnect_timer,
                   timers, tui_app, tui_event_queue>>

\* close(): the explicit close main() makes on its way out
close ==
    /\ ~normal_exit
    /\ normal_exit' = TRUE
    /\ timers' = Cancel(timers, reconnect_timer)
    /\ socks' = IF ws # 0 /\ socks[ws].state # "closed"
                THEN [socks EXCEPT ![ws].close_req = TRUE] ELSE socks
    /\ UNCHANGED <<ws, reconnect_count, is_reconnecting, connected, reconnect_timer,
                   tui_app, tui_event_queue>>

\* on_message of an open socket is handle_message
on_message(s, f) ==
    /\ socks[s].state = "open"
    /\ handle_message(f)

\* ----------------------------------------------------------- specifications
\* no call of should_translate is observed on its own
InitNoCall ==
    /\ arg_text = <<>>
    /\ arg_sender_type = ""
    /\ ret_decision = "none"

Init == InitPipeline /\ InitConnection /\ InitNoCall /\ InitEngineDefault

\* the steps of the WebSocketClient and of its socket and timer threads
NextManager ==
    /\ \/ connect
       \/ \E s \in DOMAIN socks : on_open(s)
       \/ \E s \in DOMAIN socks : on_error(s)
       \/ \E s \in DOMAIN socks : \E c \in CloseCodes : wrapped_on_close(s, c)
       \/ \E t \in DOMAIN timers : TimerFires(t)
       \/ \E t \in DOMAIN timers : _reconnect(t)
       \/ close
    /\ UNCHANGED <<pipeVars, callVars, engineVars>>

NextConnection ==
    \/ NextManager
    \/ start_tui /\ UNCHANGED <<pipeVars, callVars, engineVars>>

NextPipeline ==
    /\ \/ \E s \in DOMAIN socks : \E f \in feed : on_message(s, f)
       \/ \E raising \in SUBSET FormatLines : ProcessPlain(raising)
       \/ \E raising \in SUBSET FormatLines : ProcessCached(raising)
       \/ SubmitTranslation
       \/ \E raising \in SUBSET FormatLines :
             \E translated \in TranslatorReturns(msg_item.msg) :
                TranslationReturns(translated, raising)
       \/ \E raising \in SUBSET FormatLines : TranslationRaises(raising)
       \/ \E raising \in SUBSET FormatLines : TranslationTimesOut(raising)
       \/ WorkerStarts
       \/ \E i \in SequenceIds : \E translated \in TranslatorReturns(items[i].msg) :
             AbandonedCallEnds(i, translated)
    /\ UNCHANGED <<connVars, callVars, engineVars>>

Next == NextConnection \/ NextPipeline

Spec == Init /\ [][Next]_vars

\* the connection manager alone: no frame arrives
ConnectionSpec == Init /\ [][NextConnection]_vars

\* the pipeline alone, on the first socket once it is open
InitOpenSocket ==
    /\ socks = <<[NewSocket(TRUE) EXCEPT !.state = "open", !.was_open = TRUE]>>
    /\ ws = 1
    /\ reconnect_count = 0
    /\ is_reconnecting = FALSE
    /\ connected = TRUE
    /\ normal_exit = FALSE
    /\ timers = <<>>
    /\ reconnect_timer = 0
    /\ tui_app = FALSE
    /\ tui_event_queue = <<>>

InitOpen == InitPipeline /\ InitOpenSocket /\ InitNoCall /\ InitEngineDefault

PipelineSpec == InitOpen /\ [][NextPipeline]_vars

\* The feed of one run restricted to a single kind of frame, sent again and
\* again: the frame under study stays visible in `feed`.
OneFrameFeeds == {{f} : f \in Frames}

InitOneFrame ==
    /\ feed \in OneFrameFeeds /\ language \in LanguagePacks
    /\ InitQueues /\ InitOpenSocket /\ InitNoCall /\ InitEngineDefault

OneFrameSpec == InitOneFrame /\ [][NextPipeline]_vars

\* The whole client, connection manager and pipeline together, on a feed of
\* one kind of frame: the frames of one run arrive over every socket the
\* manager opens. The run is one with DEBUG set, in which main() never calls
\* start_tui.
SessionFrames ==
    {f \in ObjectFrames : /\ f.content = PyStr(<<"x">>)
                          /\ f.is_self \in {PyBool(FALSE), PyList}
                          /\ f.vlive_id = PyStr(<<"v">>)}

InitSession ==
    /\ feed \in {{f} : f \in SessionFrames} /\ language = "loaded"
    /\ InitQueues /\ InitConnection /\ InitNoCall /\ InitEngineDefault

NextSession == NextManager \/ NextPipeline

SessionSpec == InitSession /\ [][NextSession]_vars

\* should_translate on its own: one call on a text and a sender label
MaxTextLen == 2

Alphabet == Digits \cup Whitespace \cup Emoji \cup {"x", "y", "z", "q"}

RECURSIVE TextsUpTo(_)
TextsUpTo(n) ==
    IF n = 0 THEN {<<>>}
    ELSE LET shorter == TextsUpTo(n - 1)
         IN  shorter \cup {Append(s, c) : s \in shorter, c \in Alphabet}

CallTexts == TextsUpTo(MaxTextLen)

SenderLabels ==
    {i18n_string(pack, key) : pack \in LanguagePacks,
                              key \in {"sender_types.system", "sender_types.self",
                                       "sender_types.others"}}

InitCall ==
    /\ InitPipeline /\ InitConnection /\ InitEngineDefault
    /\ arg_text \in CallTexts
    /\ arg_sender_type \in SenderLabels
    /\ ret_decision = "pending"

CallShouldTranslate ==
    /\ ret_decision = "pending"
    /\ ret_decision' = IF should_translate(arg_text, arg_sender_type) THEN "True" ELSE "False"
    /\ UNCHANGED <<arg_text, arg_sender_type, pipeVars, connVars, engineVars>>

DecisionSpec == InitCall /\ [][CallShouldTranslate]_vars

\* the translation manager on its own: the engine is configured, saved, set
InitManager ==
    /\ InitPipeline /\ InitConnection /\ InitNoCall
    /\ \E file \in EngineNames \cup {""} : InitEngine(file)

NextEngine ==
    /\ \/ \E e \in EngineNames : action_save_config(e)
       \/ ReloadCalled
       \/ \E e \in EngineNames : set_engine(e)
       \/ \E e \in EngineNames : set_translator_engine(e)
    /\ UNCHANGED <<pipeVars, connVars, callVars>>

EngineSpec == InitManager /\ [][NextEngine]_vars

\* ------------------------------------------------------------- properties
Processed == {"plain", "cached", "ok", "raised", "timeout"}
Quiescent == seq_pc = "get" /\ message_queue = <<>>
EmittedIds == {emitted[i] : i \in 1..Len(emitted)}

\* the line process_translation_queue builds for sequence id i, by its fate
LineFor(i) ==
    IF fate[i] = "plain" THEN format_message(items[i], PyNone)
    ELSE IF fate[i] \in {"raised", "timeout"}
         THEN format_message(items[i], FailurePlaceholder(items[i].msg))
         ELSE format_message(items[i], translation_cache[items[i].msg])

\* where the line of a processed id is: on output_queue once emitted, else pending
LineAt(i) ==
    IF i < next_sequence_id THEN output_queue[i + 1]
    ELSE IF i \in DOMAIN pending_messages THEN pending_messages[i]
    ELSE [sender_type |-> "", name |-> <<>>, msg |-> <<>>, translation |-> PyNone]

\* C1: the lines on output_queue are those of sequence ids 0, 1, 2, ... in this
\* order, none skipped and none twice, and next_sequence_id is the number of
\* lines emitted so far (it advances by one per emitted line).
C1_OrderedEmission ==
    /\ \A i \in 1..Len(emitted) : emitted[i] = i - 1
    /\ Len(output_queue) = Len(emitted)
    /\ next_sequence_id = Len(emitted)
    /\ \A i \in 1..Len(output_queue) :
          /\ output_queue[i].msg = items[i - 1].msg
          /\ output_queue[i].sender_type = items[i - 1].sender_type
          /\ output_queue[i].name = items[i - 1].name

C1_Witness ==
    /\ emitted = <<0, 1, 2>>
    /\ fate[0] = "ok" /\ fate[1] = "timeout" /\ fate[2] = "plain"

\* C2: once the sequencer has nothing left to process, every sequence id that
\* handle_message has assigned has been emitted.
C2_AcceptedIsEmitted ==
    Quiescent => \A i \in 0..(message_count - 1) : i \in EmittedIds

C4_FormatFailureDoesNotHalt ==
    (Quiescent /\ \A i \in SequenceIds : fate[i] # "lost") =>
       \A j \in SequenceIds : fate[j] \in Processed => j \in EmittedIds

\* C5: a frame on which handle_message raises does not stall later messages:
\* when formatting never raised and the sequencer has nothing left to process,
\* every message that was enqueued and processed has been emitted.
C5_HandlerFailureDoesNotStall ==
    (Quiescent /\ \A i \in SequenceIds : fate[i] # "dropped") =>
       \A j \in SequenceIds : fate[j] \in Processed => j \in EmittedIds

\* C6: once the translation call for a text has returned, no step submits
\* another translation call for that text.
C6_OneCallPerText ==
    [][\A x \in Texts : x \in translated_ok => calls'[x] = calls[x]]_vars

\* C7: when every socket created so far closed abnormally without ever opening
\* and close() was not called, the timers scheduled so far are those of
\* attempts 1..n for n sockets (n up to 5), with delays 2, 4, 8, 16, 32; and
\* there are never more than five.
BackoffDelays == <<2, 4, 8, 16, 32>>

C7_BackoffSchedule ==
    /\ Len(timers) <= max_reconnect_attempts
    /\ (/\ socks # <<>>
        /\ ~normal_exit
        /\ \A s \in DOMAIN socks :
              socks[s].state = "closed" /\ socks[s].code # NormalClosure /\ ~socks[s].was_open)
       => /\ Len(timers) = IF Len(socks) < 5 THEN Len(socks) ELSE 5
          /\ \A k \in DOMAIN timers : timers[k].delay = BackoffDelays[k]

\* C8: every abnormal close of a live socket, with close() not requested and
\* reconnect_count below max_reconnect_attempts, increments reconnect_count and
\* starts a reconnect timer.
C8_AbnormalCloseSchedules ==
    [][\A s \in DOMAIN socks :
          (/\ socks[s].state \in {"connecting", "open"}
           /\ socks'[s].state = "closed"
           /\ socks'[s].code # NormalClosure
           /\ ~normal_exit
           /\ reconnect_count < max_reconnect_attempts)
          => /\ reconnect_count' = reconnect_count + 1
             /\ Len(timers') = Len(timers) + 1
             /\ timers'[Len(timers')].state = "pending"]_vars

\* C9: the open event of any socket, created by connect() or by _reconnect,
\* leaves reconnect_count at 0 and is_reconnecting false.
C9_OpenResetsCount ==
    [][\A s \in DOMAIN socks :
          (socks[s].state = "connecting" /\ socks'[s].state = "open")
          => (reconnect_count' = 0 /\ ~is_reconnecting')]_vars

\* C10: at most one reconnect timer is pending (started, not fired, not
\* cancelled) in any state.
PendingTimers == {t \in DOMAIN timers : timers[t].state = "pending"}

C10_AtMostOnePendingTimer == Cardinality(PendingTimers) <= 1

C10_Witness ==
    /\ Cardinality(PendingTimers) = 1
    /\ socks # <<>> /\ socks[1].state = "closed" /\ socks[1].was_open
    /\ reconnect_count = 1

\* the close event of socket s happens in this step
ClosesNow(s) == socks[s].state # "closed" /\ socks'[s].state = "closed"

\* C11: when close() runs while a reconnect timer is pending, the timer is
\* cancelled; a cancelled timer stays cancelled, so _reconnect never runs for
\* it; and once close() has run no step schedules a timer or counts an attempt.
C11_CloseCancelsPendingTimer ==
    [][/\ (~normal_exit /\ normal_exit') =>
            \A t \in DOMAIN timers :
                timers[t].state = "pending" => timers'[t].state = "cancelled"
       /\ \A t \in DOMAIN timers :
            timers[t].state = "cancelled" => timers'[t].state = "cancelled"
       /\ normal_exit => /\ Len(timers') = Len(timers)
                         /\ reconnect_count' = reconnect_count
                         /\ \A t \in DOMAIN timers : timers'[t].state # "pending"]_vars

\* close() found a pending timer and cancelled it
C11_Witness ==
    /\ normal_exit
    /\ reconnect_timer # 0
    /\ timers[reconnect_timer].state = "cancelled"

\* C12: a close event with code 1000, or any close event once close() has set
\* the normal-exit flag, schedules nothing: reconnect_count, the timers and the
\* current timer are unchanged, and the client is not connected afterwards.
C12_NormalCloseSchedulesNothing ==
    [][\A s \in DOMAIN socks :
          (ClosesNow(s) /\ (socks'[s].code = NormalClosure \/ normal_exit)) =>
              /\ reconnect_count' = reconnect_count
              /\ timers' = timers
              /\ reconnect_timer' = reconnect_timer
              /\ ~connected'
              /\ ~is_connected']_vars

\* an abnormal close event arrived after close() and scheduled nothing
C12_Witness ==
    /\ normal_exit
    /\ socks # <<>>
    /\ socks[1].state = "closed" /\ socks[1].code # NormalClosure /\ socks[1].close_req
    /\ timers = <<>>
    /\ ~is_connected

\* the status sink holds a notice that the reconnect attempts are exhausted
ExhaustionReported ==
    \E i \in DOMAIN tui_event_queue : tui_event_queue[i].status.text = "connection.max_attempts"

C14_EveryTransitionReported ==
    [][\A s \in DOMAIN socks :
          socks'[s].state # socks[s].state =>
              Len(tui_event_queue') = Len(tui_event_queue) + 1]_vars

\* the text without its leading and trailing whitespace
Trimmed(s) ==
    LET inked == {i \in DOMAIN s : s[i] \notin Whitespace}
    IN  IF inked = {} THEN <<>>
        ELSE SubSeq(s, CHOOSE i \in inked : \A j \in inked : i <= j,
                       CHOOSE i \in inked : \A j \in inked : j <= i)

\* the five rules that answer "do not translate", in the order they are tried
NoTranslationRules(text, label) ==
    LET detected == detect_language(Trimmed(text))
    IN  << label = "[  SELF  ]",
           \A i \in DOMAIN Trimmed(text) : Trimmed(text)[i] \in Digits,
           \A i \in DOMAIN Trimmed(text) : Trimmed(text)[i] \in Emoji \cup Whitespace,
           detected[1] = <<"un">> \/ detected[2] < 50,
           Head(detected[1]) = Head(TARGET_LANG) >>

\* C15: the decision of should_translate is false when one of the five rules
\* (Self sender, digits only, emoji or whitespace only, detection "un" or of
\* confidence below 0.5, same base language as the target) matches and true
\* when none does; it is a function of the text and the sender label.
C15_FirstMatchingRuleDecides ==
    ret_decision \in {"True", "False"} =>
        LET rules == NoTranslationRules(arg_text, arg_sender_type)
        IN  (ret_decision = "True") <=> (\A k \in DOMAIN rules : ~rules[k])

\* only the last rule matches: a text in the target's base language, not Self
C15_Witness ==
    /\ ret_decision = "False"
    /\ LET rules == NoTranslationRules(arg_text, arg_sender_type)
       IN  rules[5] /\ \A k \in 1..4 : ~rules[k]

\* the label the language pack in use gives a sender class
LabelOf(class) == i18n_string(language, class)

\* the items handle_message has enqueued so far
Enqueued == {i \in SequenceIds : items[i] # NoItem}

\* C16: a frame with is_self true and a vlive_id that is not "" is enqueued
\* with needs_translation = false, whatever its text and whatever the label of
\* the Self class is.
C16_SelfNeverTranslated ==
    \A f \in feed :
        (f.kind = "object" /\ f.is_self = PyBool(TRUE) /\ f.vlive_id # PyStr(<<>>)) =>
            \A i \in Enqueued : ~items[i].needs_translation

\* C17: the sender of an enqueued item is System exactly when the frame's
\* vlive_id is ""; otherwise it is Self when is_self is true and Other when
\* is_self is false or absent.
C17_SenderClassification ==
    \A f \in feed : \A i \in Enqueued :
        /\ items[i].sender_type = LabelOf("sender_types.system") <=> f.vlive_id = PyStr(<<>>)
        /\ f.vlive_id # PyStr(<<>>) =>
              /\ f.is_self = PyBool(TRUE) => items[i].sender_type = LabelOf("sender_types.self")
              /\ f.is_self \in {PyBool(FALSE), JsonAbsent} =>
                    items[i].sender_type = LabelOf("sender_types.others")

\* a frame that is no JSON, no JSON object, or has no or an empty content
Unusable(f) == f.kind # "object" \/ f.content = JsonAbsent \/ f.content = PyStr(<<>>)

\* C18: handing an unusable frame to handle_message changes nothing: no
\* sequence id is taken, nothing is enqueued or emitted, and the connection
\* state is as it was.
C18_UnusableFrameChangesNothing ==
    [][\A f \in feed :
          (Unusable(f) /\ frames_received' # frames_received) =>
              UNCHANGED <<message_count, message_queue, output_queue, pending_messages,
                          next_sequence_id, emitted, translation_cache, items, connVars>>]_vars

\* frames with an empty content were received and left no trace
C18_Witness ==
    /\ frames_received > 0
    /\ \A f \in feed : f.kind = "object" /\ f.content = PyStr(<<>>)
    /\ message_count = 0 /\ message_queue = <<>> /\ emitted = <<>>

\* C19: sequence ids are given in receipt order, over every socket the client
\* opens: the ids taken so far are exactly 0 .. message_count - 1, an enqueued
\* item carries the id it was given, message_queue holds strictly increasing
\* ids, message_count never decreases, and an item put on message_queue takes
\* the current message_count as its id and advances the count by one.
C19_SequenceIdsInReceiptOrder ==
    /\ [](/\ \A i \in SequenceIds : (i < message_count) <=> (fate[i] # "none")
          /\ \A i \in Enqueued : items[i].sequence_id = i
          /\ \A j \in 1..(Len(message_queue) - 1) :
                message_queue[j].sequence_id < message_queue[j + 1].sequence_id)
    /\ [][/\ message_count' \in {message_count, message_count + 1}
          /\ Len(message_queue') > Len(message_queue) =>
                /\ message_queue'[Len(message_queue')].sequence_id = message_count
                /\ message_count' = message_count + 1]_vars

\* items were enqueued and the client is on its second socket
C19_Witness ==
    /\ Len(socks) >= 2
    /\ socks[1].state = "closed" /\ socks[2].state = "open"
    /\ message_count >= 2
    /\ {0, 1} \subseteq Enqueued

\* message 0 needs no translation, message 1 is being translated, and no
\* line of theirs failed to format
HeadOfLine ==
    /\ {0, 1} \subseteq Enqueued
    /\ ~items[0].needs_translation /\ items[1].needs_translation
    /\ fate[0] # "dropped" /\ fate[1] # "dropped"

\* the translation of message 1 has ended, by a value, an exception or a timeout
TranslationOfOneEnded == fate[1] \in {"cached", "ok", "raised", "timeout"}

\* C20: with message 0 plain, message 1 slow to translate and message 2 plain,
\* line 0 is out while 1 is still being translated and line 2 is not; line 2
\* never precedes line 1; line 1 is out as soon as its translation ends, and
\* message 2 is then the next thing the sequencer handles and puts its line.
C20_HeadOfLineBlocking ==
    HeadOfLine =>
        /\ fate[1] = "waiting" => (0 \in EmittedIds /\ 1 \notin EmittedIds /\ 2 \notin EmittedIds)
        /\ 2 \in EmittedIds => SubSeq(emitted, 1, 3) = <<0, 1, 2>>
        /\ TranslationOfOneEnded => SubSeq(emitted, 1, 2) = <<0, 1>>
        /\ (TranslationOfOneEnded /\ 2 \in Enqueued /\ fate[2] = "queued") =>
              (seq_pc = "get" /\ Head(message_queue) = items[2])
        /\ (2 \in Enqueued /\ ~items[2].needs_translation /\ fate[2] = "plain") =>
              2 \in EmittedIds

\* the three lines are out, line 1 with its translation
C20_Witness ==
    /\ HeadOfLine
    /\ 2 \in Enqueued /\ ~items[2].needs_translation
    /\ fate[0] = "plain" /\ fate[1] = "ok" /\ fate[2] = "plain"
    /\ emitted = <<0, 1, 2>>

\* the calls the sequencer gave up waiting for and that a worker has yet to end
Abandoned == {i \in SequenceIds : pool[i] \in {"queued", "running"} /\ ~Awaited(i)}

\* C21: what a call abandoned on timeout returns is discarded: the step in
\* which it ends touches neither translation_cache nor output_queue nor
\* pending_messages; a cache entry always comes from a call the sequencer
\* waited for to its return; and the line of a timed-out message carries the
\* placeholder, never a string of the translator.
C21_AbandonedResultDiscarded ==
    /\ [](/\ \A x \in Texts : translation_cache[x] # PyNone => x \in translated_ok
          /\ \A i \in SequenceIds :
                (fate[i] = "timeout" /\ i < next_sequence_id) =>
                    /\ LineAt(i).translation = FailurePlaceholder(items[i].msg)
                    /\ LineAt(i).translation \notin TranslatorReturns(items[i].msg))
    /\ [][\A i \in Abandoned :
             pool'[i] = "done" =>
                UNCHANGED <<translation_cache, output_queue, pending_messages>>]_vars

\* a call timed out, its line is out, the call has ended since, nothing is cached
C21_Witness ==
    \E i \in SequenceIds :
        /\ fate[i] = "timeout" /\ pool[i] = "done"
        /\ i < next_sequence_id
        /\ translation_cache[items[i].msg] = PyNone

\* a step of the sequencer thread: it leaves .result(timeout) or takes an item
SequencerStep ==
    \/ seq_pc = "waiting" /\ seq_pc' = "get"
    \/ seq_pc = "get" /\ message_queue # <<>> /\ message_queue' = Tail(message_queue)

\* C22: translation_cache is read and written by the sequencer thread alone:
\* every step that changes it is a step of the sequencer; between the lookup
\* and the insertion of one iteration (the sequencer waits in .result) no step
\* of a worker, of the socket thread or of the timer thread changes it; an
\* insertion changes the entry of its own text only; and an entry that is
\* present stays present.
C22_CacheOnlyBySequencer ==
    [][/\ translation_cache' # translation_cache => SequencerStep
       /\ (seq_pc = "waiting" /\ seq_pc' = "waiting") => translation_cache' = translation_cache
       /\ seq_pc = "waiting" =>
             \A x \in Texts \ {msg_item.msg} : translation_cache'[x] = translation_cache[x]
       /\ \A x \in Texts :
             translation_cache[x] # PyNone => translation_cache'[x] # PyNone]_vars

\* an entry was inserted after an abandoned call had ended in a worker, on the
\* socket a reconnect created
C22_Witness ==
    /\ \E x \in Texts : Truthy(translation_cache[x])
    /\ \E i \in SequenceIds : fate[i] = "timeout" /\ pool[i] = "done"
    /\ Len(socks) >= 2

\* C23: between two iterations of the sequencer loop pending_messages has no
\* entry for next_sequence_id or for a lower id: every pending id is greater
\* than next_sequence_id, the contiguous prefix having been put and removed in
\* the step that stored its last line.
C23_PendingAboveNext ==
    \A k \in DOMAIN pending_messages : k > next_sequence_id

\* a line waits in pending_messages behind an id that never arrived, after
\* the prefix before it was emitted
C23_Witness ==
    /\ next_sequence_id >= 1
    /\ pending_messages # <<>>
    /\ Len(emitted) = next_sequence_id

\* C24: at most MAX_WORKERS calls are executing, abandoned ones included; a
\* call starts only when a worker is free, so a call submitted while every
\* worker is busy waits; and whenever the sequencer waits in .result(timeout),
\* whether its call runs or is still queued, the timeout can end the wait.
C24_AtMostWorkersCalls ==
    /\ [](/\ Cardinality(Running) <= MAX_WORKERS
          /\ seq_pc = "waiting" => ENABLED TranslationTimesOut({}))
    /\ [][\A i \in SequenceIds :
             (pool[i] = "queued" /\ pool'[i] = "running") =>
                Cardinality(Running) < MAX_WORKERS]_vars

\* a call timed out while still queued behind an abandoned call that occupies
\* the worker
C24_Witness ==
    \E i, j \in SequenceIds :
        /\ j < i
        /\ fate[j] = "timeout" /\ pool[j] = "running"
        /\ fate[i] = "timeout" /\ pool[i] = "queued"
        /\ Cardinality(Running) = MAX_WORKERS

\* C25: reconnect_count stays within 0 .. max_reconnect_attempts, and a step
\* changes it only by adding one while scheduling a timer or by setting it to
\* 0 at the open event of a socket.
C25_ReconnectCountRange ==
    /\ [](reconnect_count \in 0..max_reconnect_attempts)
    /\ [][reconnect_count' # reconnect_count =>
             \/ /\ reconnect_count' = reconnect_count + 1
                /\ Len(timers') = Len(timers) + 1
                /\ timers'[Len(timers')].state = "pending"
             \/ /\ reconnect_count' = 0
                /\ \E s \in DOMAIN socks :
                      socks[s].state = "connecting" /\ socks'[s].state = "open"]_vars

\* an abnormal close after a successful open has counted one attempt
C25_Witness ==
    /\ reconnect_count = 1
    /\ socks # <<>> /\ socks[1].was_open /\ socks[1].state = "closed"
    /\ timers # <<>>

\* C26: is_connected() is True exactly when the current socket has had its
\* open event and no close event since, the socket of a reconnect included.
C26_IsConnectedTracksSocket ==
    is_connected <=> (ws # 0 /\ socks[ws].state = "open")

\* C29: once close() has returned no socket is created and self.ws is not
\* replaced, whatever a reconnect timer was doing when close() ran.
C29_NoSocketAfterClose ==
    [][normal_exit => (Len(socks') = Len(socks) /\ ws' = ws)]_vars

\* the engine the configuration names, "google" when it names none
ConfiguredEngine == IF config_json = "" THEN "google" ELSE config_json

\* C27: after the engine was changed and saved and reload() has run,
\* current_engine is the engine the configuration now names.
C27_ReloadTakesConfiguredEngine ==
    engine_call.reloaded => current_engine = ConfiguredEngine

\* C28: set_engine(e) with a registered e makes it the current engine; with
\* any other e it raises and leaves current_engine and the translator table
\* as they were.
C28_SetEngineValidates ==
    [][engine_call'.op = "set_engine" =>
          IF engine_call'.arg \in {"openai", "google"}
          THEN /\ current_engine' = engine_call'.arg
               /\ ~engine_call'.raised
               /\ translators' = translators
          ELSE /\ engine_call'.raised
               /\ current_engine' = current_engine
               /\ translators' = translators]_vars

\* set_engine raised on an unregistered name after a registered one was set
C28_Witness ==
    /\ engine_call.op = "set_engine" /\ engine_call.raised
    /\ engine_call.arg \notin RegisteredEngines
    /\ current_engine \in RegisteredEngines
    /\ current_engine # TRANSLATOR_ENGINE

\* C30: translation_cache holds successful translations only: the error
\* string a failed translation returns is never the entry of its text, so a
\* later message with that text is submitted again.
C30_OnlySuccessesCached ==
    \A x \in Texts : translation_cache[x] # TranslationErrorString(x)

\* this step puts the abnormal-close notice on the status sink
AbnormalCloseNoticePushed ==
    /\ Len(tui_event_queue') = Len(tui_event_queue) + 1
    /\ tui_event_queue'[Len(tui_event_queue')].status.text = "connection.closed_abnormal"

\* C31: the abnormal-close notice is pushed to the status sink only for an
\* abnormal close: the close event of a socket with code 1000, or one that
\* follows an explicit close(), pushes none; and a close event that schedules
\* a reconnect has pushed the notice to a started sink.
C31_AbnormalNoticeOnlyForAbnormalClose ==
    [][\A s \in DOMAIN socks :
          ClosesNow(s) =>
              /\ (socks'[s].code = NormalClosure \/ normal_exit) => ~AbnormalCloseNoticePushed
              /\ (timers' # timers /\ tui_app) => AbnormalCloseNoticePushed]_vars

\* a loop iteration of process_translation_queue ends in this step
IterationEnds ==
    /\ seq_pc' = "get"
    /\ \/ seq_pc = "waiting"
       \/ message_queue # <<>> /\ message_queue' = Tail(message_queue)

\* the item the iteration that ends in this step has processed
ProcessedItem == IF seq_pc = "waiting" THEN msg_item ELSE Head(message_queue)

\* every sequence id up to i was put on message_queue
NoneMissingUpTo(i) == \A j \in 0..i : fate'[j] # "lost"

\* C32: the sequencer awaits at most one translation at a time, and it awaits
\* one only when every message queued before it has been fully processed; so
\* when no sequence id up to the processed one is missing from the queue, the
\* iteration leaves pending_messages empty and has emitted its message.
C32_OneOutstandingAndEmittedAtOnce ==
    /\ [](\A i \in SequenceIds :
             Awaited(i) => /\ \A j \in SequenceIds : Awaited(j) => j = i
                           /\ \A j \in 0..(i - 1) : fate[j] \notin {"queued", "waiting"})
    /\ [][(IterationEnds /\ NoneMissingUpTo(ProcessedItem.sequence_id)) =>
             /\ DOMAIN pending_messages' = {}
             /\ \E k \in DOMAIN emitted' : emitted'[k] = ProcessedItem.sequence_id]_vars
====
